---- MODULE Spec2Model ----
(***************************************************************************)
(* A model of road_names.py: the tag matcher, View, BBox, and the          *)
(* RoadNames pipeline (load_box, load_views, generate_views, _preprocess,  *)
(* plot).                                                                  *)
(*                                                                         *)
(* Representation.                                                         *)
(*  - An XML element is a record with a "tag" field and one field per XML  *)
(*    attribute; element.get(a) is Get(element, a), which gives None for   *)
(*    an absent attribute exactly as lxml does.                            *)
(*  - Longitudes and latitudes are integers (whole degrees).  A float      *)
(*    is an exact fraction [n, d], or one of the IEEE results inf / nan    *)
(*    that numpy and pandas give for a division by zero.                   *)
(*  - View objects live in `heap`; RoadNames.views holds references        *)
(*    (heap indices), so the same View object may be registered twice.     *)
(***************************************************************************)
EXTENDS Integers, Sequences, FiniteSets, TLC

VARIABLES
    bbox,       \* RoadNames.bbox: None or a BBox record
    xml,        \* RoadNames.xml / cxml: the parsed document (top-level elements)
    id_table,   \* RoadNames.id_table: rows [id, lon, lat] sorted by id
    views,      \* RoadNames.views: sequence of references into heap
    ways,       \* RoadNames.ways: sequence of way elements
    width,      \* RoadNames.width
    height,     \* RoadNames.height
    filename,   \* RoadNames.filename
    heap,       \* every View object constructed so far
    svg,        \* the paths of the last document plot() wrote
    pc,         \* the last method called on the RoadNames instance
    err,        \* the exception that call raised, or None
    runs,       \* number of _preprocess / plot calls made
    call        \* last direct call of a pure helper: arguments and result

vars == <<bbox, xml, id_table, views, ways, width, height, filename,
          heap, svg, pc, err, runs, call>>

\* Python's None.  TLC compares only values of one kind, so None stands for
\* it where strings are held (Tag.v, an XML attribute, err, filename) and
\* NoneObj where numbers, records or sequences are.
None == "None"
NoneObj == [none |-> TRUE]

----------------------------------------------------------------------------
(* Bounds of the model *)

MaxChildren == 2    \* children of a way handed directly to the tag matcher
MaxViews == 2       \* length of RoadNames.views
MaxRuns == 2        \* _preprocess / plot calls on one instance

----------------------------------------------------------------------------
(* XML elements *)

Get(el, a) == IF a \in DOMAIN el THEN el[a] ELSE None

TagEl(k, v) == [tag |-> "tag", k |-> k, v |-> v]
NdEl(ref) == [tag |-> "nd", ref |-> ref]
NodeEl(id, lon, lat) == [tag |-> "node", id |-> id, lon |-> lon, lat |-> lat]
WayEl(id, children) == [tag |-> "way", id |-> id, children |-> children]

\* A list built element by element: the sequence f, held as a tuple of
\* its values rather than as a rule evaluated at every access.
list(f) == <<>> \o f

getchildren(el) == IF "children" \in DOMAIN el THEN el.children ELSE <<>>

----------------------------------------------------------------------------
(* Tag and the tag matcher *)

Tag(k, v) == [k |-> k, v |-> v]

RECURSIVE way_has_tag_from(_, _, _)
way_has_tag_from(children, tag, i) ==
    IF i > Len(children) THEN FALSE
    ELSE LET child == children[i] IN
         IF child.tag # "tag" THEN way_has_tag_from(children, tag, i + 1)
         ELSE IF Get(child, "k") # tag.k THEN way_has_tag_from(children, tag, i + 1)
         ELSE IF tag.v # None /\ Get(child, "v") # tag.v
              THEN way_has_tag_from(children, tag, i + 1)
         ELSE TRUE

\* A plausible slip: the value of the criterion is never compared.
way_has_tag_key_only(way, tag) ==
    \E i \in 1..Len(getchildren(way)) :
        /\ getchildren(way)[i].tag = "tag"
        /\ Get(getchildren(way)[i], "k") = tag.k

_way_has_tag(way, tag) ==
    way_has_tag_from(getchildren(way), tag, 1)

RECURSIVE way_has_tags_from(_, _, _)
way_has_tags_from(way, tags, i) ==
    IF i > Len(tags) THEN TRUE
    ELSE IF ~ _way_has_tag(way, tags[i]) THEN FALSE
    ELSE way_has_tags_from(way, tags, i + 1)

_way_has_tags(way, tags) == way_has_tags_from(way, tags, 1)

RECURSIVE way_not_has_tags_from(_, _, _)
way_not_has_tags_from(way, tags, i) ==
    IF i > Len(tags) THEN TRUE
    ELSE IF _way_has_tag(way, tags[i]) THEN FALSE
    ELSE way_not_has_tags_from(way, tags, i + 1)

_way_not_has_tags(way, tags) == way_not_has_tags_from(way, tags, 1)

----------------------------------------------------------------------------
(* View *)

\* View.__post_init__: None criteria become empty lists, results start empty.
View(true_tags, false_tags) ==
    [true_tags  |-> IF true_tags = None THEN <<>> ELSE true_tags,
     false_tags |-> IF false_tags = None THEN <<>> ELSE false_tags,
     ways       |-> <<>>,
     way_ids    |-> <<>>,
     way_lonlat |-> <<>>]

\* A plausible slip: the forbidden tags are not consulted.
test_and_add_way_no_false(view, way) ==
    IF ~ _way_has_tags(way, view.true_tags) THEN view
    ELSE [view EXCEPT !.ways = Append(@, way)]

test_and_add_way(view, way) ==
    IF ~ _way_has_tags(way, view.true_tags) THEN view
    ELSE IF ~ _way_not_has_tags(way, view.false_tags) THEN view
    ELSE [view EXCEPT !.ways = Append(@, way)]

----------------------------------------------------------------------------
(* Float arithmetic.  A float is a fraction [n, d] with d >= 0, not       *)
(* reduced; d = 0 gives the IEEE specials: n > 0 is inf, n < 0 is -inf,    *)
(* n = 0 is nan.                                                           *)

Sign(i) == IF i < 0 THEN -1 ELSE IF i = 0 THEN 0 ELSE 1

Frac(n, d) == IF d < 0 THEN [n |-> -n, d |-> -d] ELSE [n |-> n, d |-> d]
Float(i) == [n |-> i, d |-> 1]
NaN == [n |-> 0, d |-> 0]

IsNaN(a) == a.d = 0 /\ a.n = 0
IsInf(a) == a.d = 0 /\ a.n # 0
IsFinite(a) == a.d > 0
\* equality of floats as == computes it (nan equals nothing)
FEq(a, b) == /\ ~ IsNaN(a) /\ ~ IsNaN(b)
             /\ IF a.d = 0 \/ b.d = 0 THEN a.d = b.d /\ Sign(a.n) = Sign(b.n)
                ELSE a.n * b.d = b.n * a.d
FLess(a, b) == a.d > 0 /\ b.d > 0 /\ a.n * b.d < b.n * a.d

FMul(a, b) ==
    [n |-> IF a.d = 0 \/ b.d = 0 THEN Sign(a.n) * Sign(b.n) ELSE a.n * b.n,
     d |-> a.d * b.d]

\* numpy / pandas true division: x/0 is inf or nan, never an exception
FDiv(a, b) ==
    IF IsNaN(b) THEN NaN ELSE FMul(a, Frac(b.d, b.n))

FSub(a, b) ==
    IF a.d = 0 /\ b.d = 0
    THEN (IF a.n # 0 /\ b.n # 0 /\ Sign(a.n) # Sign(b.n)
          THEN [n |-> Sign(a.n), d |-> 0] ELSE NaN)
    ELSE [n |-> IF a.d = 0 \/ b.d = 0 THEN Sign(a.n * b.d - b.n * a.d)
                ELSE a.n * b.d - b.n * a.d,
          d |-> a.d * b.d]

\* int(x) of a finite float: truncation towards zero
Trunc(a) == Sign(a.n) * ((Sign(a.n) * a.n) \div a.d)

\* np.cos(lat_mid * np.pi / 180), by its second-order expansion
\* 1 - (lat_mid*pi/180)^2 / 2, with pi^2/64800 taken as 19/125000; adequate
\* for |lat_mid| of a few degrees, where it stays within (0, 1].
np_cos_deg(lat_mid) ==
    FSub(Float(1), FMul(FMul(lat_mid, lat_mid), Frac(19, 125000)))

----------------------------------------------------------------------------
(* BBox *)

\* BBox.__post_init__ (the formatted strings and the cache id are left out:
\* only the fetch collaborator reads them).  Nothing is validated.
BBox(lon_min, lon_max, lat_min, lat_max) ==
    LET lat_mid == Frac(lat_min + lat_max, 2)
        lon_span == lon_max - lon_min
        lat_span == lat_max - lat_min
        lon_scale == np_cos_deg(lat_mid)
    IN [lon_min |-> lon_min, lon_max |-> lon_max,
        lat_min |-> lat_min, lat_max |-> lat_max,
        lon_mid |-> Frac(lon_min + lon_max, 2), lat_mid |-> lat_mid,
        lon_span |-> lon_span, lat_span |-> lat_span,
        lon_scale |-> lon_scale,
        htw_ratio |-> FDiv(Float(lat_span), FMul(Float(lon_span), lon_scale))]

----------------------------------------------------------------------------
(* Node index *)

RECURSIVE insert_by_id(_, _)
insert_by_id(sorted, row) ==
    IF sorted = <<>> THEN <<row>>
    ELSE IF sorted[Len(sorted)].id <= row.id THEN Append(sorted, row)
    ELSE Append(insert_by_id(SubSeq(sorted, 1, Len(sorted) - 1), row),
                sorted[Len(sorted)])

RECURSIVE sort_values_by_id(_, _)
sort_values_by_id(rows, i) ==
    IF i = 0 THEN <<>>
    ELSE insert_by_id(sort_values_by_id(rows, i - 1), rows[i])

\* RoadNames._create_id_lat_lon_table: one row per node element, in id
\* order (rows of equal id keep their document order); ids are not
\* checked for uniqueness.
_create_id_lat_lon_table(doc) ==
    LET nodes == SelectSeq(doc, LAMBDA child : child.tag = "node")
        rows == list([i \in 1..Len(nodes) |->
                    [id |-> nodes[i].id, lon |-> nodes[i].lon, lat |-> nodes[i].lat]])
    IN sort_values_by_id(rows, Len(rows))

RECURSIVE loc_rows(_, _, _)
loc_rows(table, id_list, i) ==
    IF i > Len(id_list) THEN <<>>
    ELSE SelectSeq(table, LAMBDA row : row.id = id_list[i])
         \o loc_rows(table, id_list, i + 1)

\* A plausible slip: labels that are not in the index are skipped.
loc_skip_missing(table, id_list) ==
    [err |-> None, df |-> loc_rows(table, id_list, 1)]

\* id_table.loc[id_list]: every row carrying each label, in the order of
\* the labels; KeyError when a label is in no row.
loc(table, id_list) ==
    IF \E i \in 1..Len(id_list) : \A r \in 1..Len(table) : table[r].id # id_list[i]
    THEN [err |-> "KeyError", df |-> <<>>]
    ELSE [err |-> None, df |-> loc_rows(table, id_list, 1)]

----------------------------------------------------------------------------
(* RoadNames: selection, resolution, projection *)

\* Only({F(r) : r \in {e}}) is F(e) with e evaluated once (a LET
\* definition of an action is evaluated again at every use).
Only(S) == CHOOSE x \in S : TRUE

\* RoadNames._select_ways: appends to self.ways, which is never cleared.
_select_ways(old_ways, doc) ==
    old_ways \o SelectSeq(doc, LAMBDA child : child.tag = "way")

RECURSIVE add_ways_from(_, _, _)
add_ways_from(view, all_ways, i) ==
    IF i > Len(all_ways) THEN view
    ELSE Only({ add_ways_from(v, all_ways, i + 1)
                : v \in {test_and_add_way(view, all_ways[i])} })

\* the ids of the nd children of a way, in order
way_node_ids(way) ==
    LET nds == SelectSeq(getchildren(way), LAMBDA child : child.tag = "nd")
    IN list([i \in 1..Len(nds) |-> nds[i].ref])

\* the loop over view.way_ids: one lookup per id list, appended to
\* view.way_lonlat; the first KeyError ends the loop with what was appended
\* before it.
lookup_all(view, table) ==
    Only({ Only({ [view |-> [view EXCEPT !.way_lonlat =
                                @ \o list([j \in 1..(stop - 1) |-> found[j].df])],
                   err |-> IF stop > Len(found) THEN None ELSE found[stop].err]
                  : stop \in {IF \A j \in 1..Len(found) : found[j].err = None
                              THEN Len(found) + 1
                              ELSE CHOOSE j \in 1..Len(found) :
                                       /\ found[j].err # None
                                       /\ \A k \in 1..(j - 1) : found[k].err = None} })
           : found \in {list([j \in 1..Len(view.way_ids) |->
                                 loc(table, view.way_ids[j])])} })

\* the body of the first loop of _process_views for one view
process_view(view, all_ways, table) ==
    Only({ Only({ lookup_all(v2, table)
                  : v2 \in {[v1 EXCEPT !.way_ids =
                               @ \o list([i \in 1..Len(v1.ways) |->
                                             way_node_ids(v1.ways[i])])]} })
           : v1 \in {add_ways_from(view, all_ways, 1)} })

RECURSIVE process_views_from(_, _, _, _, _)
process_views_from(h, refs, all_ways, table, i) ==
    IF i > Len(refs) THEN [heap |-> h, err |-> None]
    ELSE Only({ Only({ IF r.err # None THEN [heap |-> h2, err |-> r.err]
                       ELSE process_views_from(h2, refs, all_ways, table, i + 1)
                       : h2 \in {[h EXCEPT ![refs[i]] = r.view]} })
                : r \in {process_view(h[refs[i]], all_ways, table)} })

\* A plausible slip: the vertical axis is not flipped.
project_row_no_flip(row, box, w, h) ==
    [id |-> row.id, lon |-> row.lon, lat |-> row.lat,
     x |-> FMul(FDiv(Float(row.lon - box.lon_min), Float(box.lon_span)), Float(w)),
     y |-> FMul(FDiv(Float(row.lat - box.lat_min), Float(box.lat_span)), Float(h))]

\* df['x'], df['y'] of one row
project_row(row, box, w, h) ==
    LET y == FMul(FDiv(Float(row.lat - box.lat_min), Float(box.lat_span)), Float(h))
    IN [id |-> row.id, lon |-> row.lon, lat |-> row.lat,
        x |-> FMul(FDiv(Float(row.lon - box.lon_min), Float(box.lon_span)), Float(w)),
        y |-> FSub(Float(h), y)]

project_view(view, box, w, h) ==
    [view EXCEPT !.way_lonlat =
        list([i \in 1..Len(@) |->
                 list([j \in 1..Len(@[i]) |-> project_row(@[i][j], box, w, h)])])]

Range(seq) == {seq[i] : i \in 1..Len(seq)}

\* RoadNames._process_views: [heap, err]; the projection loop runs only
\* when the first loop raised nothing.
_process_views(h, refs, all_ways, table, box, w, ht) ==
    Only({ IF r.err # None THEN r
           ELSE [heap |-> list([ref \in 1..Len(r.heap) |->
                                   IF ref \in Range(refs)
                                   THEN project_view(r.heap[ref], box, w, ht)
                                   ELSE r.heap[ref]]),
                 err |-> None]
           : r \in {process_views_from(h, refs, all_ways, table, 1)} })

\* RoadNames._preprocess: the new values of width, height, ways and heap,
\* and the exception raised, if any.
_preprocess(w) ==
    IF bbox = NoneObj
    THEN [width |-> w, height |-> height, ways |-> ways, heap |-> heap,
          err |-> "AttributeError"]
    ELSE LET hf == FMul(Float(w), bbox.htw_ratio) IN
         IF ~ IsFinite(hf)
         THEN [width |-> w, height |-> height, ways |-> ways, heap |-> heap,
               err |-> IF IsInf(hf) THEN "OverflowError" ELSE "ValueError"]
         ELSE Only({ Only({ [width |-> w, height |-> Trunc(hf), ways |-> ws,
                             heap |-> r.heap, err |-> r.err]
                            : r \in {_process_views(heap, views, ws, id_table,
                                                     bbox, w, Trunc(hf))} })
                     : ws \in {_select_ways(ways, xml)} })

\* _xy_to_svg_d: the path of one point sequence
_xy_to_svg_d(df) ==
    list([j \in 1..Len(df) |-> <<IF j = 1 THEN "M" ELSE "L", df[j].x, df[j].y>>])

Min(a, b) == IF a < b THEN a ELSE b

\* the loop of plot() over zip(view.way_lonlat, view.ways), all views
RECURSIVE plot_paths(_, _, _)
plot_paths(h, refs, i) ==
    IF i > Len(refs) THEN <<>>
    ELSE LET view == h[refs[i]]
             n == Min(Len(view.way_lonlat), Len(view.ways))
         IN list([j \in 1..n |-> _xy_to_svg_d(view.way_lonlat[j])])
            \o plot_paths(h, refs, i + 1)

----------------------------------------------------------------------------
(* Inputs: documents, bounding boxes, View objects of the caller *)

way_res == WayEl(1, <<NdEl(1), NdEl(2), TagEl("highway", "residential"),
                      TagEl("surface", "asphalt")>>)
way_loop == WayEl(2, <<NdEl(2), NdEl(3), NdEl(2), TagEl("highway", "tertiary"),
                       TagEl("surface", "asphalt")>>)
way_path == WayEl(3, <<NdEl(1), TagEl("surface", "gravel")>>)
way_dangling == WayEl(4, <<NdEl(1), NdEl(9), TagEl("highway", "residential")>>)

\* every way references defined nodes, node ids are unique
DocGood == <<[tag |-> "bounds"], NodeEl(2, 1, 1), NodeEl(1, 0, 0), NodeEl(3, 2, 2),
             way_res, way_loop, [tag |-> "relation", id |-> 7], way_path>>
\* way 4 references node 9, which the document does not define
DocDangling == <<NodeEl(1, 0, 0), NodeEl(2, 1, 1), way_path, way_dangling, way_res>>
\* node 1 is defined twice, with the same coordinates
DocDuplicate == <<NodeEl(1, 0, 0), NodeEl(2, 1, 1), NodeEl(1, 0, 0), way_res>>
Docs == {DocGood, DocDangling, DocDuplicate}

\* <<lon_min, lon_max, lat_min, lat_max>>: two proper boxes, one with no
\* longitude span, one with no latitude span, one with the bounds inverted
Boxes == {<<0, 1, 0, 1>>, <<0, 2, 0, 1>>, <<1, 1, 0, 1>>, <<0, 1, 1, 1>>, <<1, 0, 1, 0>>}

\* canvas widths passed to _preprocess; plot is called with its default
Widths == {1, 2}
DefaultWidth == 1000
Filenames == {"vancouver"}

\* View objects the caller constructed before registering them
UserViews ==
    << View(None, None),
       View(<<Tag("highway", None), Tag("surface", "asphalt")>>,
            <<Tag("surface", "gravel"), Tag("highway", "tertiary")>>) >>

RECURSIVE SeqsUpTo(_, _)
SeqsUpTo(S, n) ==
    IF n = 0 THEN {<<>>}
    ELSE LET shorter == SeqsUpTo(S, n - 1)
         IN shorter \cup {Append(q, x) : q \in shorter, x \in S}

\* children handed to the tag matcher directly; the last is a node
\* reference that carries k and v attributes of its own
ChildPool ==
    {TagEl("highway", "residential"), TagEl("highway", "tertiary"),
     TagEl("surface", "asphalt"), [tag |-> "tag", k |-> "highway"],
     NdEl(1), [tag |-> "nd", ref |-> 2, k |-> "highway", v |-> "residential"]}

ProbeWays == {WayEl(0, cs) : cs \in SeqsUpTo(ChildPool, MaxChildren)}
ProbeTags == {Tag(k, v) : k \in {"highway", "surface"},
                          v \in {None, "residential", "asphalt"}}

----------------------------------------------------------------------------
(* The RoadNames instance *)

NoCall == [fn |-> None]

\* RoadNames.__init__, with the caller's View objects already constructed
Init ==
    /\ bbox = NoneObj
    /\ xml = NoneObj
    /\ id_table = NoneObj
    /\ views = <<>>
    /\ ways = <<>>
    /\ width = NoneObj
    /\ height = NoneObj
    /\ filename = None
    /\ heap = UserViews
    /\ svg = NoneObj
    /\ pc = "__init__"
    /\ err = None
    /\ runs = 0
    /\ call = NoCall

\* RoadNames.load_box; _read_osm gets `doc` from the fetch collaborator.
\* The region is loaded before it is processed ("RoadNames first takes a
\* region (load_box) and then can plot it (plot)").
load_box(lon_min, lon_max, lat_min, lat_max, doc) ==
    /\ runs = 0
    /\ bbox' = BBox(lon_min, lon_max, lat_min, lat_max)
    /\ xml' = doc
    /\ id_table' = _create_id_lat_lon_table(doc)
    /\ pc' = "load_box"
    /\ err' = None
    /\ UNCHANGED <<views, ways, width, height, filename, heap, svg, runs, call>>

\* RoadNames.load_views with a list of references to View objects
load_views(refs) ==
    /\ Len(views) + Len(refs) <= MaxViews
    /\ views' = views \o refs
    /\ pc' = "load_views"
    /\ err' = None
    /\ UNCHANGED <<bbox, xml, id_table, ways, width, height, filename, heap, svg,
                   runs, call>>

\* RoadNames.generate_views: two fresh View objects, registered
generate_views ==
    /\ Len(views) + 2 <= MaxViews
    /\ heap' = heap \o << View(<<Tag("highway", "residential")>>, None),
                          View(<<Tag("highway", "tertiary")>>, None) >>
    /\ views' = views \o <<Len(heap) + 1, Len(heap) + 2>>
    /\ pc' = "generate_views"
    /\ err' = None
    /\ UNCHANGED <<bbox, xml, id_table, ways, width, height, filename, svg,
                   runs, call>>

\* RoadNames._preprocess(width)
preprocess(w) ==
    /\ runs < MaxRuns
    /\ \E r \in {_preprocess(w)} :
        /\ width' = r.width
        /\ height' = r.height
        /\ ways' = r.ways
        /\ heap' = r.heap
        /\ err' = r.err
    /\ pc' = "_preprocess"
    /\ runs' = runs + 1
    /\ UNCHANGED <<bbox, xml, id_table, views, filename, svg, call>>

\* RoadNames.plot(filename, width); the SVG file is the collaborator's, the
\* paths handed to it are kept in svg
plot(name, w) ==
    /\ runs < MaxRuns
    /\ filename' = name
    /\ \E r \in {_preprocess(w)} :
       \E paths \in {IF r.err = None THEN plot_paths(r.heap, views, 1) ELSE <<>>} :
        /\ width' = r.width
        /\ height' = r.height
        /\ ways' = r.ways
        /\ heap' = r.heap
        /\ IF r.err # None
           THEN /\ err' = r.err
                /\ svg' = svg
           ELSE IF \E i \in 1..Len(paths) : paths[i] = <<>>
           THEN /\ err' = "IndexError"
                /\ svg' = svg
           ELSE /\ err' = None
                /\ svg' = paths
    /\ pc' = "plot"
    /\ runs' = runs + 1
    /\ UNCHANGED <<bbox, xml, id_table, views, call>>

Next ==
    \/ \E b \in Boxes, doc \in Docs : load_box(b[1], b[2], b[3], b[4], doc)
    \/ \E refs \in SeqsUpTo(1..Len(UserViews), MaxViews) \ {<<>>} : load_views(refs)
    \/ generate_views
    \/ \E w \in Widths : preprocess(w)
    \/ \E name \in Filenames : plot(name, DefaultWidth)

Spec == Init /\ [][Next]_vars

----------------------------------------------------------------------------
(* Direct calls of the tag matcher *)

call_way_has_tag(way, tag) ==
    /\ call' = [fn |-> "_way_has_tag", way |-> way, tag |-> tag,
                result |-> _way_has_tag(way, tag)]
    /\ UNCHANGED <<bbox, xml, id_table, views, ways, width, height, filename,
                   heap, svg, pc, err, runs>>

NextMatcher == \E way \in ProbeWays, tag \in ProbeTags : call_way_has_tag(way, tag)

SpecMatcher == Init /\ [][NextMatcher]_vars

----------------------------------------------------------------------------
(* Vocabulary of the properties *)

RunCalls == {"_preprocess", "plot"}

\* the last call was a processing run that went through _process_views
\* without an exception (plot may still have failed on an empty path)
Processed == pc \in RunCalls /\ err \in {None, "IndexError"}

Registered == Range(views)
DocWays == SelectSeq(xml, LAMBDA child : child.tag = "way")
ValidBox == bbox.lon_min < bbox.lon_max /\ bbox.lat_min < bbox.lat_max

\* a way carries the criterion: some tag child has its key and, when the
\* criterion names a value, that value
Carries(way, tag) ==
    \E child \in Range(getchildren(way)) :
        /\ child.tag = "tag"
        /\ "k" \in DOMAIN child /\ child.k = tag.k
        /\ tag.v # None => ("v" \in DOMAIN child /\ child.v = tag.v)

Selects(view, way) ==
    /\ \A tag \in Range(view.true_tags) : Carries(way, tag)
    /\ \A tag \in Range(view.false_tags) : ~ Carries(way, tag)

Defined(id) == \E r \in 1..Len(id_table) : id_table[r].id = id
Dangling(way) == \E id \in Range(way_node_ids(way)) : ~ Defined(id)
RowIds(df) == [j \in 1..Len(df) |-> df[j].id]
\* no View object is registered twice
RegisteredOnce == \A i, j \in 1..Len(views) : views[i] = views[j] => i = j
Positions(seq, x) == {i \in 1..Len(seq) : seq[i] = x}

----------------------------------------------------------------------------
(* C1: after a processing run that completed, a way of the document is in  *)
(* a registered View's ways if and only if it carries all of the View's    *)
(* true_tags and none of its false_tags; the View without criteria holds   *)
(* every way of the document.                                              *)
C1_SelectsExactlyMatching ==
    Processed =>
        \A ref \in Registered : \A way \in Range(DocWays) :
            /\ (way \in Range(heap[ref].ways)) <=> Selects(heap[ref], way)
            /\ (heap[ref].true_tags = <<>> /\ heap[ref].false_tags = <<>>)
                   => way \in Range(heap[ref].ways)

\* a completed run over the open View and the View with both kinds of
\* criteria, on a document with a way the forbidden tags exclude
C1_Witness ==
    /\ Processed
    /\ Registered = {1, 2}
    /\ xml = DocGood
    /\ way_res \in Range(heap[2].ways)
    /\ way_loop \notin Range(heap[2].ways)
    /\ Range(heap[1].ways) = {way_res, way_loop, way_path}

(* C2: _way_has_tag(way, tag) is true exactly when some tag child of the   *)
(* way has the criterion's key and, if the criterion has a value, that     *)
(* value; a criterion without value accepts any or no value, and children  *)
(* that are not tag elements never match.                                  *)
C2_WayHasTag ==
    call.fn = "_way_has_tag" => (call.result <=> Carries(call.way, call.tag))

\* a call that is refused although a node reference carries the key and
\* the value, and a call without value accepted by a tag without value
C2_WitnessNd ==
    /\ call.fn = "_way_has_tag"
    /\ ~ call.result
    /\ call.tag = Tag("highway", "residential")
    /\ \E child \in Range(getchildren(call.way)) :
           child.tag = "nd" /\ Get(child, "k") = "highway"
                            /\ Get(child, "v") = "residential"

C9_ProjectionCorners ==
    (Processed /\ ValidBox) =>
        \A ref \in Registered :
            /\ \A i \in 1..Len(heap[ref].way_lonlat) :
                   \A p \in Range(heap[ref].way_lonlat[i]) :
                       /\ (p.lon = bbox.lon_min /\ p.lat = bbox.lat_min)
                              => FEq(p.x, Float(0)) /\ FEq(p.y, Float(height))
                       /\ (p.lon = bbox.lon_max /\ p.lat = bbox.lat_max)
                              => FEq(p.x, Float(width)) /\ FEq(p.y, Float(0))
                       /\ \A q \in Range(heap[ref].way_lonlat[i]) :
                              /\ p.lon < q.lon => FLess(p.x, q.x)
                              /\ p.lat < q.lat => ~ FLess(p.y, q.y)
            /\ \A way \in Range(heap[ref].ways) :
                   \E i \in 1..Len(heap[ref].way_lonlat) :
                       /\ Len(heap[ref].way_lonlat[i]) >= Len(way_node_ids(way))
                       /\ Range(RowIds(heap[ref].way_lonlat[i]))
                              = Range(way_node_ids(way))

\* a completed run in which one point sequence has a point on each of the
\* two corners and another has a point beyond the right edge and above the
\* top edge
C9_Witness ==
    /\ Processed /\ ValidBox
    /\ height > 0
    /\ \E ref \in Registered : \E i, j \in 1..Len(heap[ref].way_lonlat) :
           /\ \E p, q \in Range(heap[ref].way_lonlat[i]) :
                  /\ p.lon = bbox.lon_min /\ p.lat = bbox.lat_min
                  /\ q.lon = bbox.lon_max /\ q.lat = bbox.lat_max
           /\ \E o \in Range(heap[ref].way_lonlat[j]) :
                  /\ FLess(Float(width), o.x)
                  /\ FLess(o.y, Float(0))

----------------------------------------------------------------------------
(* C3: a processing run that follows a completed one leaves every          *)
(* registered View with the matched ways and node-id lists it had after    *)
(* the earlier run, and with the same point sequences when the canvas      *)
(* width is the same: results are rebuilt, nothing accumulates.            *)
C3_RerunResets ==
    [][(Processed /\ runs' = runs + 1 /\ err' = None) =>
          \A ref \in Registered :
              /\ heap'[ref].ways = heap[ref].ways
              /\ heap'[ref].way_ids = heap[ref].way_ids
              /\ width' = width => heap'[ref].way_lonlat = heap[ref].way_lonlat
      ]_vars

(* C4: after a completed processing run, with each View registered once,   *)
(* the matched ways of each registered View are in document order: of two  *)
(* entries of the list, the earlier one is a way that comes earlier in the *)
(* document.                                                               *)
C4_DocumentOrder ==
    (Processed /\ RegisteredOnce) =>
        \A ref \in Registered :
            \A i, j \in 1..Len(heap[ref].ways) :
                i < j => \E a \in Positions(DocWays, heap[ref].ways[i]) :
                         \E b \in Positions(DocWays, heap[ref].ways[j]) : a < b

(* C5: on the first run of an instance whose bounding box is valid, whose  *)
(* Views are registered once each and whose document has no way that       *)
(* references an undefined node id, the run succeeds and every View has    *)
(* one point sequence per matched way, the i-th listing the nodes of the   *)
(* i-th way in the way's own order, with their coordinates.                *)
C5_OneSequencePerWay ==
    ( /\ pc \in RunCalls /\ runs = 1
      /\ bbox # NoneObj /\ ValidBox
      /\ RegisteredOnce
      /\ \A way \in Range(DocWays) : ~ Dangling(way) )
    => /\ err = None
       /\ \A ref \in Registered :
              /\ Len(heap[ref].way_lonlat) = Len(heap[ref].ways)
              /\ \A i \in 1..Len(heap[ref].way_lonlat) :
                     /\ RowIds(heap[ref].way_lonlat[i])
                            = way_node_ids(heap[ref].ways[i])
                     /\ \A p \in Range(heap[ref].way_lonlat[i]) :
                            \E node \in Range(xml) :
                                /\ node.tag = "node" /\ node.id = p.id
                                /\ node.lon = p.lon /\ node.lat = p.lat

(* C7: a processing run that raises inside _preprocess leaves every        *)
(* registered View as it was before the run: no matched way, node-id list  *)
(* or point sequence of the failed run stays behind.                       *)
C7_NoPartialResults ==
    [][(runs' = runs + 1 /\ err' \notin {None, "IndexError"}) =>
          \A ref \in Registered : heap'[ref] = heap[ref]
      ]_vars

(* C8: every bounding box that exists has lon_span > 0 and lat_span > 0,   *)
(* because construction with lon_min >= lon_max or lat_min >= lat_max      *)
(* fails.                                                                  *)
C8_BoxSpansPositive ==
    bbox # NoneObj => bbox.lon_span > 0 /\ bbox.lat_span > 0

(* C10: after a completed processing run, with each View registered once,  *)
(* the three result lists of every registered View have the same length,   *)
(* and the i-th node-id list and the i-th point sequence are those of the  *)
(* i-th matched way.                                                       *)
C10_ParallelLists ==
    (Processed /\ RegisteredOnce) =>
        \A ref \in Registered :
            /\ Len(heap[ref].way_ids) = Len(heap[ref].ways)
            /\ Len(heap[ref].way_lonlat) = Len(heap[ref].ways)
            /\ \A i \in 1..Len(heap[ref].ways) :
                   /\ heap[ref].way_ids[i] = way_node_ids(heap[ref].ways[i])
                   /\ Range(RowIds(heap[ref].way_lonlat[i]))
                          = Range(heap[ref].way_ids[i])

====
